---- MODULE Spec2Model ----
(***************************************************************************)
(* Model of sldc-cytomine: reconstruction of an arbitrary window of a      *)
(* remote slide from 256x256 protocol tiles cached in a working directory. *)
(*                                                                         *)
(* Rasters are kept symbolically: a decoded tile is a record giving its    *)
(* shape and the slide position of its top-left pixel, so the pixel at     *)
(* (i, j) of any raster can be computed without storing 65536 values per   *)
(* tile.  Slide pixel (x, y) has the value <<x, y>>; a zero (padding or    *)
(* never written) pixel has the value ZeroPixel.                           *)
(***************************************************************************)
EXTENDS Integers, Sequences, FiniteSets, TLC

VARIABLES
  image,      \* the remote ImageInstance: [id, width, height, zoom]
  server,     \* what the image server answers: [fail, kind]
  cfg,        \* the caller's choices: [slide_class, tile_class, zoom_level]
  win,        \* the caller's window: [x, y, w, h] (absolute)
  files,      \* the working directory: cache file name -> stored image
  pc,         \* "idle" | "tasks"
  call,       \* the CytomineTile call in progress or last ended: [fn, wp, cfg, win]
  plan,       \* the result of _iip_window for the call in progress
  pending,    \* sub-tiles whose task has not run yet
  results,    \* sub-tile -> what its task returned or raised
  outcome,    \* how the call ended: [kind, raster]
  runs,       \* number of calls started so far
  hist,       \* history kept for the properties
  top,        \* the caller of the tile machine: the module-level function in progress
              \* (infer_protocols, dump_region), the TileCache call, the single
              \* sub-tile being read, or the two concurrent calls
  names       \* two tile keys (two cache requests) and the paths they were given

vars == <<image, server, cfg, win, files, pc, call, plan, pending, results, outcome, runs, hist,
          top, names>>

----------------------------------------------------------------------------
(* Program constants and bounds *)

TileSize == 256

Channels == 3

MaxRuns == 2

ZeroPixel == <<-1, -1>>

Min(a, b) == IF a < b THEN a ELSE b

Max(a, b) == IF a > b THEN a ELSE b

CeilDiv(a, b) == (a + b - 1) \div b

----------------------------------------------------------------------------
(* Python slicing a[start:stop] on an axis of length n *)

PyIndex(n, k) == IF k < 0 THEN Max(n + k, 0) ELSE Min(k, n)

PySliceLen(n, start, stop) == Max(PyIndex(n, stop) - PyIndex(n, start), 0)

----------------------------------------------------------------------------
(* Slide geometry: AbstractCytomineSlide.width / height *)

RECURSIVE Pow2(_)
Pow2(n) == IF n <= 0 THEN 1 ELSE 2 * Pow2(n - 1)

SlideWidth(img, zoom_level) == img.width \div Pow2(zoom_level)

SlideHeight(img, zoom_level) == img.height \div Pow2(zoom_level)

(* The slide as the tile classes see it: class, image instance, zoom level *)
Slide(img, c) ==
  [cls |-> c.slide_class, image_instance |-> img, zoom_level |-> c.zoom_level,
   width |-> SlideWidth(img, c.zoom_level), height |-> SlideHeight(img, c.zoom_level)]

(* api_zoom_level of the two slide classes *)
api_zoom_level(slide) ==
  IF slide.cls = "CytomineSlide"
  THEN slide.image_instance.zoom - slide.zoom_level
  ELSE slide.image_instance.depth - slide.zoom_level

----------------------------------------------------------------------------
(* Grid planner: CytomineTile._iip_window *)

left_margin(t) == t.x % TileSize

top_margin(t) == t.y % TileSize

right_margin_zero_case(t) ==
  IF (t.x + t.w) % TileSize = 0 THEN 0 ELSE TileSize - ((t.x + t.w) % TileSize)

right_margin(t) == TileSize - ((t.x + t.w) % TileSize)

bottom_margin(t) == TileSize - ((t.y + t.h) % TileSize)

(* sldc Image.window as called by _iip_window: the view is clipped to the slide *)
ImageWindow(slide, offset, max_width, max_height) ==
  [x |-> offset[1], y |-> offset[2],
   width  |-> Min(max_width, slide.width - offset[1]),
   height |-> Min(max_height, slide.height - offset[2])]

iip_window_shifted(slide, t) ==
  LET margins == <<top_margin(t), left_margin(t), bottom_margin(t), right_margin(t)>>
      offset  == <<t.x, t.y>>
      width   == t.w + left_margin(t) + right_margin(t)
      height  == t.h + top_margin(t) + bottom_margin(t)
  IN [window |-> ImageWindow(slide, offset, width, height),
      offset |-> offset, width |-> width, height |-> height, margins |-> margins]

iip_window(slide, t) ==
  LET margins == <<top_margin(t), left_margin(t), bottom_margin(t), right_margin(t)>>
      offset  == <<t.x - left_margin(t), t.y - top_margin(t)>>
      width   == t.w + left_margin(t) + right_margin(t)
      height  == t.h + top_margin(t) + bottom_margin(t)
  IN [window |-> ImageWindow(slide, offset, width, height),
      offset |-> offset, width |-> width, height |-> height, margins |-> margins]

----------------------------------------------------------------------------
(* sldc TileTopology(window, builder, max_width=256, max_height=256, overlap=0) *)

tile_horizontal_count(width) ==
  IF width <= TileSize THEN 1 ELSE CeilDiv(width, TileSize)

tile_vertical_count(height) ==
  IF height <= TileSize THEN 1 ELSE CeilDiv(height, TileSize)

(* The sub-tiles in identifier order (row-major), each built by
   CytomineGenericTileBuilder as tile_class(working_path, window, offset, w, h).
   offset_x/offset_y are relative to the window, abs_offset_* to the slide. *)
SubTile(window, row, col) ==
  [offset_x |-> col * TileSize, offset_y |-> row * TileSize,
   width  |-> Min(TileSize, window.width - col * TileSize),
   height |-> Min(TileSize, window.height - row * TileSize),
   abs_offset_x |-> window.x + col * TileSize,
   abs_offset_y |-> window.y + row * TileSize,
   polygon_mask |-> "none"]

Topology(window) ==
  LET hc == tile_horizontal_count(window.width)
      vc == tile_vertical_count(window.height)
  IN [i \in 1..(hc * vc) |-> SubTile(window, (i - 1) \div hc, (i - 1) % hc)]

----------------------------------------------------------------------------
(* Cache file names: CytomineDownloadableTile.cache_filename / cache_filepath.
   A name is the sequence of its characters; integers are rendered in decimal
   as str.format renders them. *)

Digit(d) == <<"0", "1", "2", "3", "4", "5", "6", "7", "8", "9">>[d + 1]

RECURSIVE Dec(_)
Dec(n) ==
  IF n < 0 THEN <<"-">> \o Dec(-n)
  ELSE IF n < 10 THEN <<Digit(n)>>
  ELSE Dec(n \div 10) \o <<Digit(n % 10)>>

FormatNoSep(id, zoom, x, y, w, h) ==
  Dec(id) \o Dec(zoom) \o <<"-">> \o Dec(x) \o <<"-">> \o Dec(y)
    \o <<"-">> \o Dec(w) \o <<"-">> \o Dec(h) \o <<".", "p", "n", "g">>

(* "{id}-{zoom}-{x}-{y}-{w}-{h}.png".format(...) *)
Format(id, zoom, x, y, w, h) ==
  Dec(id) \o <<"-">> \o Dec(zoom) \o <<"-">> \o Dec(x) \o <<"-">> \o Dec(y)
    \o <<"-">> \o Dec(w) \o <<"-">> \o Dec(h) \o <<".", "p", "n", "g">>

cache_filename(slide, tile) ==
  Format(slide.image_instance.id, slide.zoom_level,
         tile.abs_offset_x, tile.abs_offset_y, tile.width, tile.height)

cache_filepath(working_path, slide, tile) ==
  <<working_path, "/">> \o cache_filename(slide, tile)

Exists(fs, path) == path \in DOMAIN fs

WriteFile(fs, path, content) ==
  [q \in DOMAIN fs \cup {path} |-> IF q = path THEN content ELSE fs[q]]

----------------------------------------------------------------------------
(* The image server.  Level z of the pyramid has the image's size divided by
   2^(zoom - z); a tile request is answered with the stored tile (smaller than
   256x256 on the right and bottom edges of the level) or with an error. *)

NoAnswer == [kind |-> "error"]

ServerTile(img, srv, z, col, row) ==
  LET lw == img.width \div Pow2(img.zoom - z)
      lh == img.height \div Pow2(img.zoom - z)
  IN IF z < 0 \/ z > img.zoom \/ col * TileSize >= lw \/ row * TileSize >= lh
        \/ <<col, row>> \in srv.fail
     THEN NoAnswer
     ELSE [kind |-> srv.kind, srcx |-> col * TileSize, srcy |-> row * TileSize,
           rows |-> Min(TileSize, lh - row * TileSize),
           cols |-> Min(TileSize, lw - col * TileSize)]

(* "/slice/tile" with tileIndex: the server finds the tile from the linear index *)
ServerTileByIndex(img, srv, z, idx) ==
  LET lw  == img.width \div Pow2(img.zoom - z)
      tpr == IF z < 0 \/ z > img.zoom THEN 1 ELSE Max(CeilDiv(lw, TileSize), 1)
  IN ServerTile(img, srv, z, idx % tpr, idx \div tpr)

(* Cytomine.download_file(url, destination, override, payload) as the tile
   classes call it (override = False): nothing is transferred when the
   destination exists; a refused request returns False and writes nothing. *)
download_file(fs, destination, override, answer) ==
  IF override \/ ~Exists(fs, destination)
  THEN IF answer.kind = "error"
       THEN [raised |-> "none", ret |-> FALSE, files |-> fs, transferred |-> FALSE]
       ELSE [raised |-> "none", ret |-> TRUE,
             files |-> WriteFile(fs, destination, answer), transferred |-> TRUE]
  ELSE [raised |-> "none", ret |-> TRUE, files |-> fs, transferred |-> FALSE]

Raise(fs, exc) == [raised |-> exc, ret |-> FALSE, files |-> fs, transferred |-> FALSE]

(* CytomineZoomifyTile.download_tile_image *)
ZoomifyDownload(fs, wp, slide, srv, tile) ==
  LET col_tile == tile.abs_offset_x \div TileSize
      row_tile == tile.abs_offset_y \div TileSize
  IN download_file(fs, cache_filepath(wp, slide, tile), FALSE,
       ServerTile(slide.image_instance, srv, api_zoom_level(slide), col_tile, row_tile))

(* CytomineIIPTile.download_tile_image *)
IIPDownload(fs, wp, slide, srv, tile) ==
  IF slide.cls # "CytomineSlide" THEN Raise(fs, "TypeError")
  ELSE
    LET col_tile == tile.abs_offset_x \div TileSize
        row_tile == tile.abs_offset_y \div TileSize
        iip_tile_index == col_tile + row_tile * tile_horizontal_count(slide.width)
    IN download_file(fs, cache_filepath(wp, slide, tile), FALSE,
         ServerTileByIndex(slide.image_instance, srv, api_zoom_level(slide), iip_tile_index))

download_tile_image(fs, wp, slide, srv, tile_class, tile) ==
  IF tile_class = "CytomineIIPTile"
  THEN IIPDownload(fs, wp, slide, srv, tile)
  ELSE ZoomifyDownload(fs, wp, slide, srv, tile)

----------------------------------------------------------------------------
(* CytomineDownloadableTile.np_image: the task run for one sub-tile *)

NoImage == [ndim |-> 0]

(* imread of a stored tile: "bad" cannot be decoded (IOError) *)
Decode(content) ==
  [ndim |-> IF content.kind = "grey" THEN 2 ELSE 3,
   rows |-> content.rows, cols |-> content.cols,
   chans |-> IF content.kind = "rgba" THEN 4 ELSE IF content.kind = "grey" THEN 1 ELSE 3,
   data |-> content.kind, srcx |-> content.srcx, srcy |-> content.srcy,
   rrows |-> content.rows, rcols |-> content.cols]

(* sldc alpha_rasterize(image, polygon): the image with the rasterized polygon
   as its last channel (replacing an alpha channel it already has).  It raises
   when there is no polygon (None has no geometry) and when the geometry
   library rejects the polygon. *)
alpha_rasterize(img, polygon) ==
  IF polygon = "none" THEN [raised |-> "AttributeError", img |-> NoImage]
  ELSE IF polygon # "valid" THEN [raised |-> "GeometryError", img |-> NoImage]
  ELSE [raised |-> "none",
        img |-> [img EXCEPT !.ndim = 3,
                              !.chans = IF img.chans \in {2, 4} THEN img.chans
                                        ELSE img.chans + 1,
                              !.data = "masked"]]

add_polygon_mask_or_nothing(img, polygon_mask) ==
  LET r == alpha_rasterize(img, polygon_mask)
  IN IF r.raised = "none" THEN r.img ELSE NoImage

(* add_polygon_mask: whatever alpha_rasterize raises is swallowed and the
   image is returned as it came.  The sub-tiles of a topology carry no
   polygon. *)
add_polygon_mask(img, polygon_mask) ==
  LET r == alpha_rasterize(img, polygon_mask)
  IN IF r.raised = "none" THEN r.img ELSE img

TaskResult(exc, img, dl) ==
  [exc |-> exc, img |-> img, files |-> dl.files, ret |-> dl.ret,
   called |-> dl.called, existed |-> dl.existed, transferred |-> dl.transferred]

SubTileNpImageNoCheck(fs, wp, slide, srv, tile_class, tile) ==
  LET path == cache_filepath(wp, slide, tile)
      d    == download_tile_image(fs, wp, slide, srv, tile_class, tile)
      dl   == [files |-> d.files, called |-> TRUE, existed |-> Exists(fs, path),
               transferred |-> d.transferred, ret |-> d.ret]
  IN IF d.raised # "none" THEN TaskResult(d.raised, NoImage, dl)
     ELSE IF ~d.ret THEN TaskResult("TileExtractionException", NoImage, dl)
     ELSE IF ~Exists(dl.files, path) \/ dl.files[path].kind = "bad"
          THEN TaskResult("TileExtractionException", NoImage, dl)
     ELSE TaskResult("none", add_polygon_mask(Decode(dl.files[path]), tile.polygon_mask), dl)

SubTileNpImage(fs, wp, slide, srv, tile_class, tile) ==
  LET path == cache_filepath(wp, slide, tile)
      hit  == Exists(fs, path)
      d    == IF hit THEN [raised |-> "none", ret |-> TRUE, files |-> fs, transferred |-> FALSE]
              ELSE download_tile_image(fs, wp, slide, srv, tile_class, tile)
      dl   == [files |-> d.files, called |-> ~hit, existed |-> hit,
               transferred |-> d.transferred, ret |-> d.ret]
  IN IF d.raised # "none" THEN TaskResult(d.raised, NoImage, dl)
     ELSE IF ~hit /\ ~d.ret THEN TaskResult("TileExtractionException", NoImage, dl)
     ELSE IF ~Exists(dl.files, path) \/ dl.files[path].kind = "bad"
          THEN TaskResult("TileExtractionException", NoImage, dl)     \* imread: IOError
     ELSE LET np_array == Decode(dl.files[path])
          IN IF np_array.ndim < 3 THEN TaskResult("IndexError", NoImage, dl)  \* shape[2]
             ELSE IF np_array.chans = 4
                  THEN TaskResult("none",
                         add_polygon_mask([np_array EXCEPT !.ndim = 2, !.chans = 1,
                                                           !.data = "alpha"],
                                          tile.polygon_mask), dl)
                  ELSE TaskResult("none", add_polygon_mask(np_array, tile.polygon_mask), dl)

(* CytomineTile.fetch_subtiles: the task is the bare download *)
SubTileDownload(fs, wp, slide, srv, tile_class, tile) ==
  LET path == cache_filepath(wp, slide, tile)
      d    == download_tile_image(fs, wp, slide, srv, tile_class, tile)
      dl   == [files |-> d.files, called |-> TRUE, existed |-> Exists(fs, path),
               transferred |-> d.transferred, ret |-> d.ret]
  IN TaskResult(d.raised, NoImage, dl)

----------------------------------------------------------------------------
(* CytomineTile.np_image after the tasks: pad, write into the mosaic, crop *)

pad_iip_tile_before(img) ==
  IF img.rows > TileSize \/ img.cols > TileSize THEN [ndim |-> 0]
  ELSE [img EXCEPT !.rows = (TileSize - img.rows) + img.rows,
                   !.cols = (TileSize - img.cols) + img.cols]
         @@ [prow |-> TileSize - img.rows, pcol |-> TileSize - img.cols]

(* _pad_iip_tile: np.pad with (0, 256 - rows) and (0, 256 - cols), i.e. nothing
   before and the zeros after the decoded rows and columns, which start at
   (prow, pcol) = (0, 0) of the padded buffer; a negative pad width (a buffer
   larger than a tile) is a ValueError *)
pad_iip_tile(img) ==
  IF img.rows > TileSize \/ img.cols > TileSize THEN [ndim |-> 0]
  ELSE [img EXCEPT !.rows = img.rows + (TileSize - img.rows),
                   !.cols = img.cols + (TileSize - img.cols)]
         @@ [prow |-> 0, pcol |-> 0]

(* the assignment rebuilt[y_start:y_end, x_start:x_end] = padded *)
Assignable(height, width, y_start, x_start, padded) ==
  /\ padded.ndim = 3
  /\ padded.chans \in {1, Channels}
  /\ padded.rows = PySliceLen(height, y_start, y_start + TileSize)
  /\ padded.cols = PySliceLen(width, x_start, x_start + TileSize)

WritePosSwapped(tile) == [y_start |-> tile.offset_x, x_start |-> tile.offset_y]

WritePosHalved(tile) == [y_start |-> tile.offset_y, x_start |-> tile.offset_x \div 2]

WritePos(tile) == [y_start |-> tile.offset_y, x_start |-> tile.offset_x]

(* the writes of the loop, in the order of the topology *)
Mosaic(topology, res) ==
  [i \in DOMAIN topology |->
     [y_start |-> WritePos(topology[i]).y_start, x_start |-> WritePos(topology[i]).x_start,
      img |-> pad_iip_tile(res[i].img)]]

(* rebuilt[margins[0]:-margins[2], margins[1]:-margins[3]] *)
Crop(p, mosaic) ==
  [rows |-> PySliceLen(p.height, p.margins[1], -p.margins[3]),
   cols |-> PySliceLen(p.width, p.margins[2], -p.margins[4]),
   chans |-> Channels,
   r0 |-> PyIndex(p.height, p.margins[1]), c0 |-> PyIndex(p.width, p.margins[2]),
   mosaic |-> mosaic]

NoRaster == [rows |-> -1]

(* The value of pixel (i, j) of a returned raster: the last write covering the
   mosaic position, zero where nothing or only padding was written. *)
RasterPixel(raster, i, j) ==
  LET r == raster.r0 + i
      c == raster.c0 + j
      m == raster.mosaic
      cover == {k \in DOMAIN m :
                  /\ m[k].y_start <= r /\ r < m[k].y_start + TileSize
                  /\ m[k].x_start <= c /\ c < m[k].x_start + TileSize}
  IN IF cover = {} THEN ZeroPixel
     ELSE LET k == CHOOSE k \in cover : \A l \in cover : l <= k
              b == m[k]
              dr == r - b.y_start - b.img.prow
              dc == c - b.x_start - b.img.pcol
          IN IF 0 <= dr /\ dr < b.img.rrows /\ 0 <= dc /\ dc < b.img.rcols
             THEN <<b.img.srcx + dc, b.img.srcy + dr>>
             ELSE ZeroPixel

----------------------------------------------------------------------------
(* The inputs the model draws from *)

WorkingPath == "wd"

Images ==
  { [id |-> 7,  width |-> 600,  height |-> 300,  zoom |-> 1, depth |-> 1, has_slice |-> TRUE],
    [id |-> 12, width |-> 1024, height |-> 1024, zoom |-> 1, depth |-> 1, has_slice |-> TRUE] }

Configs ==
  { [slide_class |-> "CytomineSlide", tile_class |-> "CytomineIIPTile", zoom_level |-> 0],
    [slide_class |-> "CytomineSlide", tile_class |-> "CytomineIIPTile", zoom_level |-> 1],
    [slide_class |-> "LegacyCytomineSlide", tile_class |-> "CytomineZoomifyTile", zoom_level |-> 0],
    [slide_class |-> "LegacyCytomineSlide", tile_class |-> "CytomineIIPTile", zoom_level |-> 0] }

(* image and configuration together: the 600x300 image at full resolution
   with each protocol, the 1024x1024 image at zoom level 1 (a 512x512 slide) *)
Scenarios ==
  { sc \in [image : Images, cfg : Configs] :
      \/ sc.image.id = 7 /\ sc.cfg.zoom_level = 0
      \/ sc.image.id = 12 /\ sc.cfg.zoom_level = 1 }

Offsets == {0, 44, 256}

Sizes == {212, 256}

(* the requested windows: wholly inside the slide *)
Windows(slide) ==
  { t \in [x : Offsets, y : Offsets, w : Sizes, h : Sizes] :
      t.x + t.w <= slide.width /\ t.y + t.h <= slide.height }

EmptyDir == [q \in {} |-> NoAnswer]

(* an undecodable file (an interrupted write) under the first sub-tile's name *)
JunkDir(slide, t) ==
  WriteFile(EmptyDir,
            cache_filepath(WorkingPath, slide, Topology(iip_window(slide, t).window)[1]),
            [kind |-> "bad"])

(* what the server answers and what the working directory holds when the
   first call starts *)
Environments(slide, t) ==
  { [server |-> [fail |-> {}, kind |-> "rgb"],          files |-> EmptyDir],
    [server |-> [fail |-> {<<1, 0>>}, kind |-> "rgb"],  files |-> EmptyDir],
    [server |-> [fail |-> {}, kind |-> "rgb"],          files |-> JunkDir(slide, t)],
    [server |-> [fail |-> {<<1, 0>>}, kind |-> "grey"], files |-> EmptyDir],
    [server |-> [fail |-> {}, kind |-> "rgba"],         files |-> EmptyDir] }

NoOutcome == [kind |-> "none"]

NoPlan == [width |-> 0]

NoResults == [i \in {} |-> NoImage]

NoCall == [fn |-> "none"]

NoTop == [fn |-> "none"]

NoNames == [a |-> <<>>]

InitHist ==
  [dl_calls |-> 0, dl_existing |-> FALSE, net |-> FALSE,
   first_ok |-> NoRaster, ok_before |-> FALSE]

----------------------------------------------------------------------------
(* The tile-level state machine: CytomineTile.np_image and fetch_subtiles *)

TheSlide == Slide(image, call.cfg)

TheTopology == Topology(plan.window)

Idle ==
  /\ pc = "idle"
  /\ call = NoCall
  /\ plan = NoPlan
  /\ pending = {}
  /\ results = NoResults
  /\ outcome = NoOutcome
  /\ runs = 0
  /\ hist = InitHist

Init ==
  /\ \E sc \in Scenarios : image = sc.image /\ cfg = sc.cfg
  /\ win \in Windows(Slide(image, cfg))
  /\ \E e \in Environments(Slide(image, cfg), win) : server = e.server /\ files = e.files
  /\ Idle
  /\ top = NoTop
  /\ names = NoNames

(* a CytomineTile built on slide configuration c for window t in working path
   wp has np_image or fetch_subtiles called: plan the window and hand the
   sub-tiles to the pool *)
Begin(fn, wp, c, t) ==
  /\ call' = [fn |-> fn, wp |-> wp, cfg |-> c, win |-> t]
  /\ plan' = iip_window(Slide(image, c), t)
  /\ pending' = DOMAIN Topology(plan'.window)
  /\ results' = NoResults
  /\ outcome' = NoOutcome
  /\ runs' = runs + 1
  /\ pc' = "tasks"

StartHist ==
  [hist EXCEPT !.dl_calls = 0, !.dl_existing = FALSE, !.net = FALSE,
               !.ok_before = (hist.first_ok # NoRaster)]

Start(fn) ==
  /\ pc = "idle"
  /\ top = NoTop
  /\ runs < MaxRuns
  /\ Begin(fn, WorkingPath, cfg, win)
  /\ hist' = StartHist
  /\ UNCHANGED <<image, server, cfg, win, files, top, names>>

StartNpImage == Start("np_image")

StartFetchSubtiles == Start("fetch_subtiles")

Record(i, r) ==
  /\ files' = r.files
  /\ results' = [k \in DOMAIN results \cup {i} |->
                   IF k = i THEN [exc |-> r.exc, img |-> r.img, ret |-> r.ret]
                   ELSE results[k]]
  /\ pending' = pending \ {i}
  /\ hist' = [hist EXCEPT
                !.dl_calls = hist.dl_calls + (IF r.called THEN 1 ELSE 0),
                !.dl_existing = hist.dl_existing \/ (r.called /\ r.existed),
                !.net = hist.net \/ r.transferred]
  /\ UNCHANGED <<image, server, cfg, win, pc, call, plan, outcome, runs, top, names>>

(* one pool task of np_image: download_tile(tile) = tile.np_image *)
TaskNpImage ==
  /\ pc = "tasks" /\ call.fn = "np_image"
  /\ \E i \in pending :
       Record(i, SubTileNpImage(files, call.wp, TheSlide, server,
                                call.cfg.tile_class, TheTopology[i]))

(* one pool task of fetch_subtiles: download_tile(tile) = tile.download_tile_image() *)
TaskDownload ==
  /\ pc = "tasks" /\ call.fn = "fetch_subtiles"
  /\ \E i \in pending :
       Record(i, SubTileDownload(files, call.wp, TheSlide, server,
                                 call.cfg.tile_class, TheTopology[i]))

End(o) ==
  /\ outcome' = o
  /\ pc' = "idle"
  /\ hist' = [hist EXCEPT !.first_ok =
                IF hist.first_ok = NoRaster /\ o.kind = "returned"
                   /\ call.fn = "np_image" /\ top = NoTop
                THEN o.raster ELSE hist.first_ok]
  /\ UNCHANGED <<image, server, cfg, win, files, call, plan, pending, results, runs, top, names>>

(* generic_download re-raises what a task raised and the call ends there.
   Which failed task's exception comes out, and whether the tasks still
   pending are run first, is the pool's business: any failed task, at any
   point after its failure. *)
TaskRaised ==
  /\ pc = "tasks"
  /\ \E i \in DOMAIN results :
       /\ results[i].exc # "none"
       /\ End([kind |-> "raised", exc |-> results[i].exc, raster |-> NoRaster])

AllAssignable ==
  \A i \in DOMAIN TheTopology :
    Assignable(plan.height, plan.width, WritePos(TheTopology[i]).y_start,
               WritePos(TheTopology[i]).x_start, pad_iip_tile(results[i].img))

(* np_image after the pool: the write loop and the crop *)
ReturnNpImage ==
  /\ pc = "tasks" /\ call.fn = "np_image"
  /\ pending = {}
  /\ \A i \in DOMAIN results : results[i].exc = "none"
  /\ IF AllAssignable
     THEN End([kind |-> "returned", exc |-> "none",
               raster |-> Crop(plan, Mosaic(TheTopology, results))])
     ELSE End([kind |-> "raised", exc |-> "ValueError", raster |-> NoRaster])

(* fetch_subtiles after the pool: the results are dropped *)
ReturnFetchSubtiles ==
  /\ pc = "tasks" /\ call.fn = "fetch_subtiles"
  /\ pending = {}
  /\ \A i \in DOMAIN results : results[i].exc = "none"
  /\ End([kind |-> "returned", exc |-> "none", raster |-> NoRaster])

TileNext ==
  \/ TaskNpImage
  \/ TaskDownload
  \/ TaskRaised
  \/ ReturnNpImage
  \/ ReturnFetchSubtiles

Next ==
  \/ StartNpImage
  \/ StartFetchSubtiles
  \/ TileNext

Spec == Init /\ [][Next]_vars

----------------------------------------------------------------------------
(* autodetect.infer_protocols *)

TmpDir == "tmp"

ProbeConfig ==
  [slide_class |-> "CytomineSlide", tile_class |-> "CytomineIIPTile", zoom_level |-> 0]

ProbeWindow == [x |-> 0, y |-> 0, w |-> 256, h |-> 256]

(* leaving the TemporaryDirectory block removes what the probe stored *)
CleanTmp(fs) == [q \in {q \in DOMAIN fs : q[1] # TmpDir} |-> fs[q]]

ProbeVerdictNoFallback(o) ==
  IF o.kind = "returned" \/ o.exc = "TileExtractionException"
  THEN [kind |-> "returned", exc |-> "none",
        classes |-> <<"CytomineSlide", "CytomineIIPTile">>]
  ELSE [kind |-> "raised", exc |-> o.exc, why |-> "probe"]

(* the try/except around the probe: what infer_protocols does with the way
   tile.np_image ended *)
ProbeVerdict(o) ==
  IF o.kind = "returned"
  THEN [kind |-> "returned", exc |-> "none",
        classes |-> <<"CytomineSlide", "CytomineIIPTile">>]
  ELSE IF o.exc = "TileExtractionException"
  THEN [kind |-> "returned", exc |-> "none",
        classes |-> <<"CytomineSlide", "CytomineZoomifyTile">>]
  ELSE [kind |-> "raised", exc |-> o.exc, why |-> "probe"]

LegacyVerdict ==
  [kind |-> "returned", exc |-> "none",
   classes |-> <<"LegacyCytomineSlide", "CytomineZoomifyTile">>]

InvalidInstance == [kind |-> "raised", exc |-> "ValueError", why |-> "instance"]

(* infer_protocols up to the probe.  arg: "instance" (an ImageInstance is
   passed), "id" (it is fetched first) or "unknown" (the fetch finds nothing). *)
InferStart ==
  /\ pc = "idle" /\ top = NoTop
  /\ \E arg \in {"instance", "id", "unknown"} :
       IF arg = "unknown"
       THEN /\ top' = [fn |-> "infer_protocols", pc |-> "done", arg |-> arg,
                       result |-> InvalidInstance]
            /\ hist' = [hist EXCEPT !.net = TRUE]
            /\ UNCHANGED <<pc, call, plan, pending, results, outcome, runs>>
       ELSE IF ~image.has_slice
       THEN /\ top' = [fn |-> "infer_protocols", pc |-> "done", arg |-> arg,
                       result |-> LegacyVerdict]
            /\ hist' = [hist EXCEPT !.net = TRUE]
            /\ UNCHANGED <<pc, call, plan, pending, results, outcome, runs>>
       ELSE /\ top' = [fn |-> "infer_protocols", pc |-> "probe", arg |-> arg]
            /\ hist' = [hist EXCEPT !.net = TRUE]
            /\ Begin("np_image", TmpDir, ProbeConfig, ProbeWindow)
  /\ UNCHANGED <<image, server, cfg, win, files, names>>

(* the probe's np_image has ended: infer_protocols returns or lets the
   exception through; called from dump_region, the pair becomes the classes
   it goes on with *)
InferEnd ==
  /\ top.fn \in {"infer_protocols", "dump_region"} /\ top.pc = "probe"
  /\ pc = "idle" /\ outcome # NoOutcome
  /\ LET v == ProbeVerdict(outcome)
     IN top' = IF top.fn = "infer_protocols" \/ v.kind = "raised"
               THEN [top EXCEPT !.pc = "done"] @@ [result |-> v]
               ELSE [top EXCEPT !.pc = "inferred",
                                !.cfg = [slide_class |-> v.classes[1],
                                         tile_class |-> v.classes[2],
                                         zoom_level |-> top.cfg.zoom_level]]
  /\ files' = CleanTmp(files)
  /\ UNCHANGED <<image, server, cfg, win, pc, call, plan, pending, results, outcome,
                 runs, hist, names>>

InferImages ==
  { [id |-> 7,  width |-> 600, height |-> 300, zoom |-> 1, depth |-> 1, has_slice |-> TRUE],
    [id |-> 8,  width |-> 200, height |-> 200, zoom |-> 0, depth |-> 0, has_slice |-> TRUE],
    [id |-> 9,  width |-> 600, height |-> 300, zoom |-> 1, depth |-> 1, has_slice |-> FALSE] }

InferServers ==
  { [fail |-> {}, kind |-> "rgb"], [fail |-> {<<0, 0>>}, kind |-> "rgb"],
    [fail |-> {<<1, 0>>}, kind |-> "rgb"], [fail |-> {}, kind |-> "grey"],
    [fail |-> {<<0, 1>>}, kind |-> "grey"] }

InitInfer ==
  /\ image \in InferImages
  /\ server \in InferServers
  /\ cfg = ProbeConfig
  /\ win = ProbeWindow
  /\ files \in {EmptyDir, JunkDir(Slide(image, cfg), win)}
  /\ Idle
  /\ top = NoTop
  /\ names = NoNames

NextInfer ==
  \/ InferStart
  \/ InferEnd
  \/ TaskNpImage
  \/ TaskRaised
  \/ ReturnNpImage

SpecInfer == InitInfer /\ [][NextInfer]_vars

----------------------------------------------------------------------------
(* dump.dump_region *)

(* zone: an image identifier (fetched), an ImageInstance, or an Annotation
   (with or without its `image` and `location` attributes) *)
Zones == {"id", "image", "annotation", "annotation_noimage", "annotation_nolocation"}

IsAnnotation(zone) == zone \in {"annotation", "annotation_noimage", "annotation_nolocation"}

(* _image_from_zone fetches the image unless it is given one *)
ZoneFetches(zone) == zone # "image"

(* slide_class / tile_class arguments: both None, only one None, or both given *)
ClassModes == {"auto", "slide_only", "cytomine_iip", "legacy_zoomify"}

GivenConfig(mode, zoom_level) ==
  IF mode = "cytomine_iip"
  THEN [slide_class |-> "CytomineSlide", tile_class |-> "CytomineIIPTile",
        zoom_level |-> zoom_level]
  ELSE [slide_class |-> "LegacyCytomineSlide", tile_class |-> "CytomineZoomifyTile",
        zoom_level |-> zoom_level]

ZoomLevels == {0, 1, 2}

(* the annotation's bounding box at full resolution *)
AnnotationBox == [x |-> 44, y |-> 44, w |-> 212, h |-> 100]

(* the region to dump: the whole slide, or the annotation's box scaled by
   2^-zoom_level *)
RegionWindow(zone, slide) ==
  IF IsAnnotation(zone)
  THEN [x |-> AnnotationBox.x \div Pow2(slide.zoom_level),
        y |-> AnnotationBox.y \div Pow2(slide.zoom_level),
        w |-> AnnotationBox.w \div Pow2(slide.zoom_level),
        h |-> AnnotationBox.h \div Pow2(slide.zoom_level)]
  ELSE [x |-> 0, y |-> 0, w |-> slide.width, h |-> slide.height]

DumpRaise(exc, why) ==
  [top EXCEPT !.pc = "done"] @@ [result |-> [kind |-> "raised", exc |-> exc, why |-> why]]

(* dump_region from its first line up to the end of the autodetection's
   preliminaries (or to the first error) *)
DumpStart ==
  /\ pc = "idle" /\ top = NoTop
  /\ \E zone \in Zones, mode \in ClassModes, zl \in ZoomLevels, np \in 0..2 :
       LET t0 == [fn |-> "dump_region", pc |-> "inferred", zone |-> zone, mode |-> mode,
                  cfg |-> GivenConfig(mode, zl), npaths |-> np]
           err(why) == [t0 EXCEPT !.pc = "done"]
                         @@ [result |-> [kind |-> "raised", exc |-> "ValueError", why |-> why]]
       IN IF mode = "slide_only"
          THEN /\ top' = err("classes")
               /\ UNCHANGED <<pc, call, plan, pending, results, outcome, runs, hist>>
          ELSE IF mode # "auto"
          THEN /\ top' = t0
               /\ UNCHANGED <<pc, call, plan, pending, results, outcome, runs, hist>>
          ELSE IF zone = "annotation_noimage"
          THEN /\ top' = err("annotation_image")
               /\ UNCHANGED <<pc, call, plan, pending, results, outcome, runs, hist>>
          ELSE IF ~image.has_slice
          THEN /\ top' = [t0 EXCEPT !.cfg = [slide_class |-> LegacyVerdict.classes[1],
                                             tile_class |-> LegacyVerdict.classes[2],
                                             zoom_level |-> zl]]
               /\ hist' = [hist EXCEPT !.net = TRUE]
               /\ UNCHANGED <<pc, call, plan, pending, results, outcome, runs>>
          ELSE /\ top' = [t0 EXCEPT !.pc = "probe"]
               /\ hist' = [hist EXCEPT !.net = TRUE]
               /\ Begin("np_image", TmpDir, ProbeConfig, ProbeWindow)
  /\ UNCHANGED <<image, server, cfg, win, files, names>>

(* _infer_image_region, the tile builder and the start of tile.np_image *)
DumpRegion ==
  /\ top.fn = "dump_region" /\ top.pc = "inferred"
  /\ pc = "idle"
  /\ LET slide == Slide(image, top.cfg)
         fetched == hist.net \/ ZoneFetches(top.zone)
     IN IF top.zone = "annotation_noimage"
        THEN /\ top' = DumpRaise("ValueError", "annotation_image")
             /\ UNCHANGED <<pc, call, plan, pending, results, outcome, runs, hist>>
        ELSE IF top.cfg.slide_class = "CytomineSlide" /\ top.cfg.zoom_level > image.zoom
        THEN /\ top' = DumpRaise("ValueError", "zoom")
             /\ hist' = [hist EXCEPT !.net = TRUE]     \* reference_slice() came first
             /\ UNCHANGED <<pc, call, plan, pending, results, outcome, runs>>
        ELSE IF top.zone = "annotation_nolocation"
        THEN /\ top' = DumpRaise("ValueError", "annotation_location")
             /\ hist' = [hist EXCEPT !.net = TRUE]     \* the image was fetched
             /\ UNCHANGED <<pc, call, plan, pending, results, outcome, runs>>
        ELSE /\ top' = [top EXCEPT !.pc = "assemble"]
             /\ hist' = [hist EXCEPT !.net = fetched \/ top.cfg.slide_class = "CytomineSlide"]
             /\ Begin("np_image", WorkingPath, top.cfg, RegionWindow(top.zone, slide))
  /\ UNCHANGED <<image, server, cfg, win, files, names>>

(* after tile.np_image: resolve_pattern, the uniqueness test and imsave *)
DumpEnd ==
  /\ top.fn = "dump_region" /\ top.pc = "assemble"
  /\ pc = "idle" /\ outcome # NoOutcome
  /\ top' = IF outcome.kind = "raised" THEN DumpRaise(outcome.exc, "np_image")
            ELSE IF top.npaths # 1 THEN DumpRaise("ValueError", "pattern")
            ELSE [top EXCEPT !.pc = "done"] @@ [result |-> [kind |-> "returned", exc |-> "none"]]
  /\ UNCHANGED <<image, server, cfg, win, files, pc, call, plan, pending, results, outcome,
                 runs, hist, names>>

DumpImages ==
  { [id |-> 7, width |-> 300, height |-> 200, zoom |-> 1, depth |-> 1, has_slice |-> TRUE],
    [id |-> 9, width |-> 300, height |-> 200, zoom |-> 1, depth |-> 1, has_slice |-> FALSE] }

DumpServers == { [fail |-> {}, kind |-> "rgb"], [fail |-> {<<1, 0>>}, kind |-> "rgb"] }

InitDump ==
  /\ image \in DumpImages
  /\ server \in DumpServers
  /\ cfg = ProbeConfig
  /\ win = ProbeWindow
  /\ files = EmptyDir
  /\ Idle
  /\ top = NoTop
  /\ names = NoNames

NextDump ==
  \/ DumpStart
  \/ InferEnd
  \/ DumpRegion
  \/ DumpEnd
  \/ TaskNpImage
  \/ TaskRaised
  \/ ReturnNpImage

SpecDump == InitDump /\ [][NextDump]_vars

----------------------------------------------------------------------------
(* Cache file names of two sub-tiles *)

KeyIds == {1, 11}

KeyZooms == {1, 2, 12}

KeyXs == {0, 256}

KeyYs == {0, 2560}

KeyWs == {25, 256}

KeyHs == {6, 256}

TileKeys == [id : KeyIds, zoom : KeyZooms, x : KeyXs, y : KeyYs, w : KeyWs, h : KeyHs]

(* the slide and the sub-tile a key stands for, as far as cache_filename reads them *)
KeySlide(k) == [image_instance |-> [id |-> k.id], zoom_level |-> k.zoom]

KeyTile(k) == [abs_offset_x |-> k.x, abs_offset_y |-> k.y, width |-> k.w, height |-> k.h]

InitNames ==
  /\ image \in {i \in DumpImages : i.has_slice}
  /\ server \in {sv \in DumpServers : sv.fail = {}}
  /\ cfg = ProbeConfig
  /\ win = ProbeWindow
  /\ files = EmptyDir
  /\ Idle
  /\ top = NoTop
  /\ \E a \in TileKeys, b \in TileKeys : names = [a |-> a, b |-> b, pa |-> <<>>, pb |-> <<>>]

(* both sub-tiles have their cache_filepath evaluated in the same working path *)
NameTiles ==
  /\ names.pa = <<>>
  /\ names' = [names EXCEPT
                 !.pa = cache_filepath(WorkingPath, KeySlide(names.a), KeyTile(names.a)),
                 !.pb = cache_filepath(WorkingPath, KeySlide(names.b), KeyTile(names.b))]
  /\ UNCHANGED <<image, server, cfg, win, files, pc, call, plan, pending, results, outcome,
                 runs, hist, top>>

NextNames == NameTiles

SpecNames == InitNames /\ [][NextNames]_vars

----------------------------------------------------------------------------
(* tile_builder.TileCache: whole-request rasters cached under _tile_path *)

MaxCacheCalls == 2

(* "{}_{}_{}_{}_{}".format(id, offset_x, offset_y, width, height), "_alpha"
   appended when alpha, then ".png" *)
FormatCache(id, x, y, w, h, alpha) ==
  Dec(id) \o <<"_">> \o Dec(x) \o <<"_">> \o Dec(y) \o <<"_">> \o Dec(w) \o <<"_">> \o Dec(h)
    \o (IF alpha THEN <<"_", "a", "l", "p", "h", "a">> ELSE <<>>) \o <<".", "p", "n", "g">>

(* TileCache._tile_path: offset_x / offset_y are the tile's offsets in its
   parent, the zoom level of the base image is not read *)
tile_path(working_path, tile, alpha) ==
  <<working_path, "/">>
    \o FormatCache(tile.base_image.image_instance.id, tile.offset_x, tile.offset_y,
                   tile.width, tile.height, alpha)

cache_has_never(fs, working_path, tile, alpha) == FALSE

(* TileCache._cache_has: os.path.isfile(_tile_path) *)
cache_has(fs, working_path, tile, alpha) == Exists(fs, tile_path(working_path, tile, alpha))

(* TileCache._save: io.imsave(_tile_path, np_image) *)
save(fs, working_path, tile, np_image, alpha) ==
  WriteFile(fs, tile_path(working_path, tile, alpha), [kind |-> "saved", raster |-> np_image])

(* A CytomineTile as CytomineTileBuilder.build makes it on a parent (the slide
   or a window of it at (parent_x, parent_y)): g gives the parent's position,
   the offsets in the parent, the size and the slide's zoom level. *)
BuiltTile(img, g, polygon_mask) ==
  [base_image |-> [image_instance |-> img, zoom_level |-> g.zoom_level],
   offset_x |-> g.offset_x, offset_y |-> g.offset_y,
   abs_offset_x |-> g.parent_x + g.offset_x, abs_offset_y |-> g.parent_y + g.offset_y,
   width |-> g.width, height |-> g.height, polygon_mask |-> polygon_mask]

CacheFns == {"fetch_and_cache", "polygon_fetch_and_cache"}

CacheCalls == IF top = NoTop THEN 0 ELSE top.n

(* fetch_and_cache(tile) / polygon_fetch_and_cache(image, polygon, alpha) up
   to the cache test: a hit returns the path, a miss evaluates tile.np_image.
   The tile of polygon_fetch_and_cache comes from image.tile_from_polygon with
   mask=alpha: it boxes the polygon and carries it as its mask when alpha. *)
CacheFetch ==
  /\ pc = "idle"
  /\ top = NoTop \/ (top.fn \in CacheFns /\ top.pc = "done" /\ top.n < MaxCacheCalls)
  /\ \E fn \in CacheFns, which \in {"a", "b"}, alpha \in BOOLEAN :
       /\ fn = "fetch_and_cache" => ~alpha
       /\ LET tile == BuiltTile(image, names[which],
                                IF fn = "polygon_fetch_and_cache" /\ alpha
                                THEN names.polygon ELSE "none")
              path == tile_path(WorkingPath, tile, alpha)
              t0   == [fn |-> fn, pc |-> "fetching", n |-> CacheCalls + 1, which |-> which,
                       tile |-> tile, alpha |-> alpha, path |-> path, files0 |-> files,
                       evaluated |-> TRUE]
          IN /\ IF cache_has(files, WorkingPath, tile, alpha)
                THEN /\ top' = [t0 EXCEPT !.pc = "done", !.evaluated = FALSE]
                                 @@ [result |-> [kind |-> "returned", exc |-> "none",
                                                 path |-> path]]
                     /\ UNCHANGED <<pc, call, plan, pending, results, outcome, runs>>
                ELSE /\ top' = t0
                     /\ Begin("np_image", WorkingPath,
                              [cfg EXCEPT !.zoom_level = tile.base_image.zoom_level],
                              [x |-> tile.abs_offset_x, y |-> tile.abs_offset_y,
                               w |-> tile.width, h |-> tile.height])
             /\ names' = IF which = "a"
                         THEN [names EXCEPT !.pa = path, !.ka = <<tile, alpha>>]
                         ELSE [names EXCEPT !.pb = path, !.kb = <<tile, alpha>>]
  /\ hist' = StartHist
  /\ UNCHANGED <<image, server, cfg, win, files>>

(* tile.np_image has ended: its raster is saved under the path and the path
   returned, or its exception goes through *)
CacheSave ==
  /\ top.fn \in CacheFns /\ top.pc = "fetching"
  /\ pc = "idle" /\ outcome # NoOutcome
  /\ IF outcome.kind = "raised"
     THEN /\ top' = [top EXCEPT !.pc = "done"]
                      @@ [result |-> [kind |-> "raised", exc |-> outcome.exc, path |-> <<>>]]
          /\ files' = files
     ELSE /\ top' = [top EXCEPT !.pc = "done"]
                      @@ [result |-> [kind |-> "returned", exc |-> "none", path |-> top.path]]
          /\ files' = save(files, WorkingPath, top.tile, outcome.raster, top.alpha)
  /\ UNCHANGED <<image, server, cfg, win, pc, call, plan, pending, results, outcome,
                 runs, hist, names>>

(* the requests made to the cache: the same 212x100 box at two zoom levels,
   on the slide and on a parent window at (44, 0), and shifted in the slide *)
CacheTiles ==
  { [parent_x |-> 0,  parent_y |-> 0, offset_x |-> 0,  offset_y |-> 0,
     width |-> 212, height |-> 100, zoom_level |-> 0],
    [parent_x |-> 0,  parent_y |-> 0, offset_x |-> 0,  offset_y |-> 0,
     width |-> 212, height |-> 100, zoom_level |-> 1],
    [parent_x |-> 44, parent_y |-> 0, offset_x |-> 0,  offset_y |-> 0,
     width |-> 212, height |-> 100, zoom_level |-> 0],
    [parent_x |-> 0,  parent_y |-> 0, offset_x |-> 44, offset_y |-> 0,
     width |-> 212, height |-> 100, zoom_level |-> 0] }

Polygons == {"valid", "malformed"}

InitCache ==
  /\ image \in {i \in Images : i.id = 7}
  /\ server \in DumpServers
  /\ cfg = ProbeConfig
  /\ win = ProbeWindow
  /\ files = EmptyDir
  /\ Idle
  /\ top = NoTop
  /\ \E a \in CacheTiles, b \in CacheTiles, p \in Polygons :
       names = [a |-> a, b |-> b, polygon |-> p,
                pa |-> <<>>, pb |-> <<>>, ka |-> <<>>, kb |-> <<>>]

NextCache ==
  \/ CacheFetch
  \/ CacheSave
  \/ TaskNpImage
  \/ TaskRaised
  \/ ReturnNpImage

SpecCache == InitCache /\ [][NextCache]_vars

----------------------------------------------------------------------------
(* A single CytomineDownloadableTile built with a polygon mask has its
   np_image read *)

MaskServers ==
  { [fail |-> {}, kind |-> "rgb"], [fail |-> {<<1, 0>>}, kind |-> "rgb"],
    [fail |-> {}, kind |-> "grey"], [fail |-> {}, kind |-> "rgba"] }

MaskPolygons == {"none", "valid", "malformed"}

(* the slide itself as the parent of the tile *)
SlideWindow(slide) == [x |-> 0, y |-> 0, width |-> slide.width, height |-> slide.height]

MaskTiles(slide) ==
  { [SubTile(SlideWindow(slide), rc[1], rc[2]) EXCEPT !.polygon_mask = p] :
      rc \in {<<0, 0>>, <<0, 1>>, <<1, 2>>}, p \in MaskPolygons }

InitMask ==
  /\ \E sc \in {sc \in Scenarios : sc.image.id = 7} : image = sc.image /\ cfg = sc.cfg
  /\ win = ProbeWindow
  /\ server \in MaskServers
  /\ files \in {EmptyDir, JunkDir(Slide(image, cfg), win)}
  /\ Idle
  /\ \E t \in MaskTiles(Slide(image, cfg)) :
       top = [fn |-> "sub_tile", pc |-> "built", tile |-> t, files0 |-> files]
  /\ names = NoNames

(* tile.np_image of the tile built *)
SubTileCall ==
  /\ top.fn = "sub_tile" /\ top.pc = "built"
  /\ LET r == SubTileNpImage(files, WorkingPath, Slide(image, cfg), server,
                             cfg.tile_class, top.tile)
     IN /\ top' = [top EXCEPT !.pc = "done"] @@ [result |-> [exc |-> r.exc, img |-> r.img]]
        /\ files' = r.files
        /\ hist' = [hist EXCEPT !.dl_calls = hist.dl_calls + (IF r.called THEN 1 ELSE 0),
                                !.net = hist.net \/ r.transferred]
  /\ UNCHANGED <<image, server, cfg, win, pc, call, plan, pending, results, outcome,
                 runs, names>>

NextMask == SubTileCall

SpecMask == InitMask /\ [][NextMask]_vars

----------------------------------------------------------------------------
(* Two np_image calls running at the same time on one working directory.
   Each call goes through its sub-tiles; for a sub-tile it tests the cache
   file, has download_file request the tile and write it (the file is opened,
   then filled), and reads the file.  The steps of the two calls interleave. *)

Partial == [kind |-> "partial"]

NoStep == [i |-> 0, step |-> "none", content |-> NoAnswer]

RaceWindows ==
  { <<[x |-> 0, y |-> 0, w |-> 212, h |-> 212], [x |-> 44, y |-> 44, w |-> 212, h |-> 212]>>,
    <<[x |-> 0, y |-> 0, w |-> 212, h |-> 212], [x |-> 0, y |-> 0, w |-> 256, h |-> 212]>>,
    <<[x |-> 44, y |-> 0, w |-> 212, h |-> 212], [x |-> 256, y |-> 44, w |-> 212, h |-> 212]>> }

RaceCall(slide, t) ==
  LET p == iip_window(slide, t)
  IN [win |-> t, plan |-> p, todo |-> DOMAIN Topology(p.window), cur |-> NoStep,
      got |-> NoResults, torn |-> FALSE, out |-> NoOutcome]

InitRace ==
  /\ image \in {i \in Images : i.id = 7}
  /\ server = [fail |-> {}, kind |-> "rgb"]
  /\ cfg = ProbeConfig
  /\ win = ProbeWindow
  /\ files = EmptyDir
  /\ Idle
  /\ \E ws \in RaceWindows :
       top = [fn |-> "concurrent",
              calls |-> [c \in 1..2 |-> RaceCall(Slide(image, cfg), ws[c])]]
  /\ names = NoNames

RaceTile(c, i) == Topology(top.calls[c].plan.window)[i]

RacePath(c, i) == cache_filepath(WorkingPath, Slide(image, cfg), RaceTile(c, i))

RaceRunning(c) == top.fn = "concurrent" /\ top.calls[c].out = NoOutcome

RaceStep(c, st) ==
  /\ top' = [top EXCEPT !.calls[c] = st]
  /\ UNCHANGED <<image, server, cfg, win, pc, call, plan, pending, results, outcome,
                 runs, hist, names>>

RaceRaise(c, exc, torn) ==
  [top.calls[c] EXCEPT !.cur = NoStep, !.torn = torn,
                       !.out = [kind |-> "raised", exc |-> exc, raster |-> NoRaster]]

(* np_image of a sub-tile: os.path.exists(self.cache_filepath) *)
RaceCheck(c) ==
  /\ RaceRunning(c) /\ top.calls[c].cur = NoStep
  /\ \E i \in top.calls[c].todo :
       RaceStep(c, [top.calls[c] EXCEPT !.cur =
                      [i |-> i, content |-> NoAnswer,
                       step |-> IF Exists(files, RacePath(c, i)) THEN "read" ELSE "request"]])
  /\ files' = files

(* download_tile_image: download_file tests the destination again, sends the
   request and opens the destination for writing *)
RaceOpen(c) ==
  /\ RaceRunning(c) /\ top.calls[c].cur.step = "request"
  /\ LET i == top.calls[c].cur.i
         d == download_tile_image(files, WorkingPath, Slide(image, cfg), server,
                                  cfg.tile_class, RaceTile(c, i))
     IN IF d.raised # "none"
        THEN RaceStep(c, RaceRaise(c, d.raised, FALSE)) /\ files' = files
        ELSE IF ~d.ret
        THEN RaceStep(c, RaceRaise(c, "TileExtractionException", FALSE)) /\ files' = files
        ELSE IF ~d.transferred
        THEN RaceStep(c, [top.calls[c] EXCEPT !.cur.step = "read"]) /\ files' = files
        ELSE /\ RaceStep(c, [top.calls[c] EXCEPT !.cur.step = "write",
                                                 !.cur.content = d.files[RacePath(c, i)]])
             /\ files' = WriteFile(files, RacePath(c, i), Partial)

(* download_file has written the last block and returns True *)
RaceWrite(c) ==
  /\ RaceRunning(c) /\ top.calls[c].cur.step = "write"
  /\ RaceStep(c, [top.calls[c] EXCEPT !.cur.step = "read"])
  /\ files' = WriteFile(files, RacePath(c, top.calls[c].cur.i), top.calls[c].cur.content)

(* imread(self.cache_filepath) and the rest of the sub-tile's np_image.  A
   file that is still being written cannot be decoded: imread raises, an
   IOError (wrapped) or another exception, depending on where the file stops. *)
RaceRead(c) ==
  /\ RaceRunning(c) /\ top.calls[c].cur.step = "read"
  /\ LET i == top.calls[c].cur.i
     IN IF files[RacePath(c, i)].kind = "partial"
        THEN \E exc \in {"TileExtractionException", "SyntaxError"} :
               RaceStep(c, RaceRaise(c, exc, TRUE))
        ELSE LET r == SubTileNpImage(files, WorkingPath, Slide(image, cfg), server,
                                     cfg.tile_class, RaceTile(c, i))
             IN IF r.exc # "none" THEN RaceStep(c, RaceRaise(c, r.exc, FALSE))
                ELSE RaceStep(c, [top.calls[c] EXCEPT
                       !.cur = NoStep,
                       !.todo = @ \ {i},
                       !.got = [k \in DOMAIN @ \cup {i} |->
                                  IF k = i THEN [exc |-> "none", img |-> r.img] ELSE @[k]]])
  /\ files' = files

(* the write loop and the crop of the call *)
RaceReturn(c) ==
  /\ RaceRunning(c) /\ top.calls[c].cur = NoStep /\ top.calls[c].todo = {}
  /\ RaceStep(c, [top.calls[c] EXCEPT !.out =
       [kind |-> "returned", exc |-> "none",
        raster |-> Crop(top.calls[c].plan,
                        Mosaic(Topology(top.calls[c].plan.window), top.calls[c].got))]])
  /\ files' = files

NextRace ==
  \E c \in 1..2 :
    \/ RaceCheck(c)
    \/ RaceOpen(c)
    \/ RaceWrite(c)
    \/ RaceRead(c)
    \/ RaceReturn(c)

SpecRace == InitRace /\ [][NextRace]_vars

----------------------------------------------------------------------------
(* Construction of a slide: CytomineSlide.__init__ and LegacyCytomineSlide
   (which has AbstractCytomineSlide.__init__ only) *)

NoSlide == [cls |-> "none"]

(* reference_slice(), then the one test made: zoom_level > image_instance.zoom *)
CytomineSlideInit(img, zoom_level) ==
  IF zoom_level > img.zoom
  THEN [raised |-> "ValueError", slide |-> NoSlide]
  ELSE [raised |-> "none",
        slide |-> [cls |-> "CytomineSlide", image_instance |-> img, zoom_level |-> zoom_level]]

(* no test at all *)
LegacyCytomineSlideInit(img, zoom_level) ==
  [raised |-> "none",
   slide |-> [cls |-> "LegacyCytomineSlide", image_instance |-> img,
              zoom_level |-> zoom_level]]

NewSlide(cls, img, zoom_level) ==
  IF cls = "CytomineSlide" THEN CytomineSlideInit(img, zoom_level)
  ELSE LegacyCytomineSlideInit(img, zoom_level)

SlideImages ==
  { [id |-> 7, width |-> 600, height |-> 300, zoom |-> z, depth |-> d, has_slice |-> TRUE] :
      z \in 0..2, d \in 0..3 }

SlideZoomLevels == -1..3

InitSlide ==
  /\ image \in SlideImages
  /\ server = [fail |-> {}, kind |-> "rgb"]
  /\ cfg = ProbeConfig
  /\ win = ProbeWindow
  /\ files = EmptyDir
  /\ Idle
  /\ \E cls \in {"CytomineSlide", "LegacyCytomineSlide"}, zl \in SlideZoomLevels :
       top = [fn |-> "slide", pc |-> "new", cls |-> cls, zoom_level |-> zl]
  /\ names = NoNames

(* slide_class(image_instance, zoom_level=zoom_level), and api_zoom_level of
   the slide when there is one *)
SlideConstruct ==
  /\ top.fn = "slide" /\ top.pc = "new"
  /\ LET r == NewSlide(top.cls, image, top.zoom_level)
     IN top' = [top EXCEPT !.pc = "done"]
                 @@ [raised |-> r.raised, slide |-> r.slide,
                     api |-> IF r.raised = "none" THEN api_zoom_level(r.slide) ELSE -1]
  /\ UNCHANGED <<image, server, cfg, win, files, pc, call, plan, pending, results, outcome,
                 runs, hist, names>>

NextSlide == SlideConstruct

SpecSlide == InitSlide /\ [][NextSlide]_vars

----------------------------------------------------------------------------
(* Properties *)

Planned == plan # NoPlan

Returned(fn) == pc = "idle" /\ call.fn = fn /\ outcome.kind = "returned"

RightAligned == (call.win.x + call.win.w) % TileSize = 0

BottomAligned == (call.win.y + call.win.h) % TileSize = 0

(* C1: the four margins computed by _iip_window each lie in [0, T); the right
   (bottom) margin is 0 whenever the window's right (bottom) edge is on the
   tile grid, as the left (top) margin is when its left (top) edge is. *)
C1_MarginsBelowTileSize ==
  Planned =>
    /\ \A k \in 1..4 : plan.margins[k] >= 0 /\ plan.margins[k] < TileSize
    /\ (call.win.x % TileSize = 0 => plan.margins[2] = 0)
    /\ (call.win.y % TileSize = 0 => plan.margins[1] = 0)
    /\ (RightAligned => plan.margins[4] = 0)
    /\ (BottomAligned => plan.margins[3] = 0)

(* C2: the super-window returned by _iip_window (its offset and its size)
   contains the requested window; its offset is divisible by T in both
   coordinates and so are its width and its height. *)
C2_SuperWindowAlignedAndCovering ==
  Planned =>
    /\ plan.offset[1] % TileSize = 0 /\ plan.offset[2] % TileSize = 0
    /\ plan.width % TileSize = 0 /\ plan.height % TileSize = 0
    /\ plan.offset[1] <= call.win.x /\ call.win.x + call.win.w <= plan.offset[1] + plan.width
    /\ plan.offset[2] <= call.win.y /\ call.win.y + call.win.h <= plan.offset[2] + plan.height

C2_Witness ==
  Planned /\ call.win.x % TileSize # 0 /\ call.win.y % TileSize # 0 /\ RightAligned /\ ~BottomAligned

(* C3: a successful np_image of a window inside the slide returns a raster of
   shape exactly (h, w, 3), also when the window's right or bottom edge is on
   the tile grid or on the slide's edge. *)
C3_ShapeIsRequested ==
  Returned("np_image") =>
    /\ outcome.raster.rows = call.win.h
    /\ outcome.raster.cols = call.win.w
    /\ outcome.raster.chans = 3

C3_Witness ==
  /\ Returned("np_image")
  /\ RightAligned
  /\ call.win.y + call.win.h = TheSlide.height

(* the rows (columns) probed along an axis: the first two and the last two of
   the raster and both sides of every tile boundary crossing it.  Inside one
   written tile the pixel map is a translation, so these decide every pixel. *)
Probes(off, len) ==
  {i \in 0..(len - 1) :
     \/ i \in {0, 1, len - 2, len - 1}
     \/ (off + i) % TileSize \in {0, TileSize - 1}}

(* C4: pixel (i, j) of the raster returned by np_image is the slide pixel at
   (abs_x + j, abs_y + i). *)
C4_PixelsAreSlidePixels ==
  Returned("np_image") =>
    \A i \in Probes(call.win.y, call.win.h), j \in Probes(call.win.x, call.win.w) :
      RasterPixel(outcome.raster, i, j) = <<call.win.x + j, call.win.y + i>>

C4_Witness ==
  /\ Returned("np_image")
  /\ call.win.x % TileSize # 0 /\ call.win.x + call.win.w > TileSize
  /\ call.win.y % TileSize = 0 /\ call.win.y + call.win.h <= TileSize
  /\ Cardinality(DOMAIN outcome.raster.mosaic) >= 2

(* C5: after one successful np_image for the window, a later np_image for the
   same window and working directory calls download_tile_image zero times and
   returns a raster identical to the first. *)
C5_SecondAssemblyFromCache ==
  (call.fn = "np_image" /\ hist.ok_before) =>
    /\ hist.dl_calls = 0
    /\ (pc = "idle" => outcome.kind = "returned" /\ outcome.raster = hist.first_ok)

C5_Witness ==
  Returned("np_image") /\ hist.ok_before /\ Cardinality(DOMAIN files) >= 2

(* C6: in np_image and in fetch_subtiles, download_tile_image is invoked for a
   sub-tile only when its cache file does not exist. *)
C6_DownloadOnlyWhenAbsent == ~hist.dl_existing

(* C7: if a sub-tile's download returned false or its cached file could not
   be read, np_image ends with a TileExtractionException and returns no
   raster, whatever the other sub-tiles did. *)
C7_FailedTileMeansExtractionException ==
  (pc = "idle" /\ call.fn = "np_image"
     /\ \E i \in DOMAIN results : results[i].exc = "TileExtractionException") =>
    /\ outcome.kind = "raised"
    /\ outcome.exc = "TileExtractionException"
    /\ outcome.raster = NoRaster

InferDone == top.fn = "infer_protocols" /\ top.pc = "done"

InferReturned(slide_class, tile_class) ==
  InferDone /\ top.result.kind = "returned" /\ top.result.classes = <<slide_class, tile_class>>

ProbeWasRun == call # NoCall /\ call.wp = TmpDir /\ call.win = ProbeWindow

(* C8: infer_protocols returns (LegacyCytomineSlide, CytomineZoomifyTile) when
   the image has no reference slice, without probing; (CytomineSlide,
   CytomineIIPTile) when it has one and the 256x256 IIP probe at (0, 0)
   succeeds; (CytomineSlide, CytomineZoomifyTile) when the probe raises
   TileExtractionException; nothing else, and never CytomineIIPTile with
   LegacyCytomineSlide. *)
C8_InferredPair ==
  /\ (InferDone /\ top.result.kind = "returned") =>
       \/ /\ ~image.has_slice /\ call = NoCall
          /\ top.result.classes = <<"LegacyCytomineSlide", "CytomineZoomifyTile">>
       \/ /\ image.has_slice /\ ProbeWasRun /\ outcome.kind = "returned"
          /\ top.result.classes = <<"CytomineSlide", "CytomineIIPTile">>
       \/ /\ image.has_slice /\ ProbeWasRun
          /\ outcome.kind = "raised" /\ outcome.exc = "TileExtractionException"
          /\ top.result.classes = <<"CytomineSlide", "CytomineZoomifyTile">>
  /\ (InferDone /\ top.arg # "unknown" /\ ~image.has_slice) =>
       InferReturned("LegacyCytomineSlide", "CytomineZoomifyTile")
  /\ (InferDone /\ ProbeWasRun /\ outcome.kind = "returned") =>
       InferReturned("CytomineSlide", "CytomineIIPTile")
  /\ (InferDone /\ ProbeWasRun /\ outcome.kind = "raised"
        /\ outcome.exc = "TileExtractionException") =>
       InferReturned("CytomineSlide", "CytomineZoomifyTile")
  /\ ~InferReturned("LegacyCytomineSlide", "CytomineIIPTile")

C8_Witness ==
  /\ InferReturned("CytomineSlide", "CytomineZoomifyTile")
  /\ ProbeWasRun /\ Cardinality(DOMAIN results) >= 2

DumpDone == top.fn = "dump_region" /\ top.pc = "done"

InputErrors == {"classes", "zoom", "pattern", "annotation_image", "annotation_location"}

(* C9: every ValueError of dump_region for a bad input (zoom level above the
   server maximum, destination pattern not resolving to one path, annotation
   without its image or geometry) is raised before any network activity. *)
C9_InputErrorsBeforeNetwork ==
  (DumpDone /\ top.result.kind = "raised" /\ top.result.exc = "ValueError"
     /\ top.result.why \in InputErrors) => ~hist.net

Named == names # NoNames /\ names.pa # <<>>

(* C10: two sub-tiles with the same (image id, zoom level, abs_offset_x,
   abs_offset_y, width, height) get the same cache path in a working
   directory, and two sub-tiles differing in any component get different
   paths. *)
C10_SameKeySamePath ==
  Named => ((names.a = names.b) <=> (names.pa = names.pb))

C10_Witness ==
  /\ Named
  /\ names.a.id = 1 /\ names.a.zoom = 12
  /\ names.b.id = 11 /\ names.b.zoom = 2
  /\ \A f \in {"x", "y", "w", "h"} : names.a[f] = names.b[f]

(* the key the cache is meant to separate entries by *)
CacheKey(tile, alpha) ==
  <<tile.base_image.image_instance.id, tile.base_image.zoom_level,
    tile.abs_offset_x, tile.abs_offset_y, tile.width, tile.height, alpha>>

CacheDone == top.fn \in CacheFns /\ top.pc = "done"

(* C11: the whole-request cache keys an entry by (slide id, zoom, abs_x,
   abs_y, width, height, alpha flag): two requests whose keys differ (in the
   zoom level, or in the absolute offset, e.g. equal offsets in two different
   parent windows) never get the same cache path. *)
C11_CacheKeysNeverCollide ==
  (names.pa # <<>> /\ names.pb # <<>>
     /\ CacheKey(names.ka[1], names.ka[2]) # CacheKey(names.kb[1], names.kb[2])) =>
    names.pa # names.pb

(* C12: fetch_and_cache and polygon_fetch_and_cache write the raster to the
   cache path only if no file is there; when the file exists tile.np_image is
   not evaluated, nothing is fetched, the file is left as it was and the same
   path is returned. *)
C12_CacheHitFetchesNothing ==
  /\ (top.fn \in CacheFns /\ Exists(top.files0, top.path)) =>
       /\ top.pc = "done" /\ ~top.evaluated /\ pc = "idle"
       /\ files = top.files0
       /\ hist.dl_calls = 0 /\ ~hist.net
       /\ top.result.kind = "returned" /\ top.result.path = top.path
  /\ (CacheDone /\ ~Exists(top.files0, top.path) /\ top.result.kind = "returned") =>
       /\ top.evaluated /\ top.result.path = top.path
       /\ Exists(files, top.path) /\ files[top.path].raster = outcome.raster

C12_Witness ==
  /\ CacheDone /\ top.n = 2 /\ top.fn = "polygon_fetch_and_cache"
  /\ Exists(top.files0, top.path)
  /\ Cardinality(DOMAIN files) >= 2

(* C14: np_image of a CytomineTile built with a valid polygon mask is a
   4-channel raster (the 4th channel is the rasterized polygon); built with
   no polygon it is a 3-channel raster. *)
C14_PolygonMaskGivesAlphaChannel ==
  (top.fn \in CacheFns /\ top.pc = "fetching" /\ pc = "idle" /\ outcome.kind = "returned") =>
    outcome.raster.chans = IF top.tile.polygon_mask = "valid" THEN 4 ELSE 3

SubTileDone == top.fn = "sub_tile" /\ top.pc = "done"

SubTilePath == cache_filepath(WorkingPath, Slide(image, cfg), top.tile)

(* what np_image makes of a stored tile before masking: the decoded array, or
   its 4th channel when it has four *)
Unmasked(content) ==
  IF content.kind = "rgba"
  THEN [Decode(content) EXCEPT !.ndim = 2, !.chans = 1, !.data = "alpha"]
  ELSE Decode(content)

(* C13: add_polygon_mask never fails: when the rasterization of the polygon
   raises, the raster is returned unmasked and unchanged and the tile's
   np_image succeeds as it would have without a polygon. *)
C13_MaskFailureFallsBack ==
  SubTileDone =>
    /\ top.result.exc \in {"none", "TileExtractionException", "IndexError", "TypeError"}
    /\ (Exists(files, SubTilePath) /\ files[SubTilePath].kind \in {"rgb", "rgba"}
          /\ (cfg.tile_class = "CytomineIIPTile" => cfg.slide_class = "CytomineSlide")) =>
         top.result.exc = "none"
    /\ (top.result.exc = "none" /\ top.tile.polygon_mask # "valid") =>
         top.result.img = Unmasked(files[SubTilePath])

C13_Witness ==
  /\ SubTileDone /\ top.tile.polygon_mask = "malformed" /\ hist.net
  /\ top.result.exc = "none" /\ top.result.img.chans = 3 /\ top.result.img.cols < TileSize

(* C15: when two np_image calls for overlapping, different windows run at the
   same time on one working directory, under every interleaving each call
   returns the right raster for its window; no call decodes a sub-tile file
   that the other call has created and not finished writing. *)
C15_ConcurrentCallsIndependent ==
  top.fn = "concurrent" =>
    \A c \in 1..2 :
      LET k == top.calls[c]
      IN /\ ~k.torn
         /\ k.out.kind # "raised"
         /\ k.out.kind = "returned" =>
              \A i \in Probes(k.win.y, k.win.h), j \in Probes(k.win.x, k.win.w) :
                RasterPixel(k.out.raster, i, j) = <<k.win.x + j, k.win.y + i>>

(* the rasters the sub-tile tasks return when every tile is fetched anew, in
   the order of the topology *)
FreshResults ==
  [i \in DOMAIN TheTopology |->
     LET r == SubTileNpImage(EmptyDir, call.wp, TheSlide, server, call.cfg.tile_class,
                             TheTopology[i])
     IN [exc |-> r.exc, img |-> r.img, ret |-> r.ret]]

WriteRegionsDisjoint(m) ==
  \A k \in DOMAIN m, l \in DOMAIN m :
    k # l => \/ m[k].x_start + TileSize <= m[l].x_start
             \/ m[l].x_start + TileSize <= m[k].x_start
             \/ m[k].y_start + TileSize <= m[l].y_start
             \/ m[l].y_start + TileSize <= m[k].y_start

(* C16: the sub-tile tasks of np_image write pairwise disjoint regions of the
   mosaic, so for a given window and server content the raster returned is
   the same whatever the order in which the tasks complete. *)
C16_CompletionOrderIrrelevant ==
  Returned("np_image") =>
    /\ WriteRegionsDisjoint(outcome.raster.mosaic)
    /\ outcome.raster = Crop(plan, Mosaic(TheTopology, FreshResults))

C16_Witness ==
  /\ Returned("np_image")
  /\ Cardinality(DOMAIN outcome.raster.mosaic) = 4

(* C17: a sub-tile decoded to fewer than 256 rows or columns is padded to
   256x256 with zeros at the bottom and right only, the decoded pixels staying
   at the top-left; for a window inside the slide no padding pixel is in the
   raster np_image returns. *)
C17_PaddingNeverExposed ==
  Returned("np_image") =>
    /\ \A k \in DOMAIN outcome.raster.mosaic :
         LET b == outcome.raster.mosaic[k].img
         IN /\ b.rows = TileSize /\ b.cols = TileSize
            /\ b.prow = 0 /\ b.pcol = 0
            /\ b.rrows <= TileSize /\ b.rcols <= TileSize
    /\ \A i \in Probes(call.win.y, call.win.h), j \in Probes(call.win.x, call.win.w) :
         RasterPixel(outcome.raster, i, j) # ZeroPixel

C17_Witness ==
  /\ Returned("np_image")
  /\ call.win.y + call.win.h = TheSlide.height
  /\ \E k \in DOMAIN outcome.raster.mosaic :
       LET b == outcome.raster.mosaic[k]
       IN /\ b.img.rrows < TileSize /\ b.img.rrows > 0
          /\ b.y_start < outcome.raster.r0 + outcome.raster.rows
          /\ b.y_start >= outcome.raster.r0

(* C18: the sub-tiles fetched for a window are the minimal covering set:
   every fetched 256x256 grid cell intersects the window (no extra column or
   row for a window whose right or bottom edge is on the grid), and the
   256x256 window at (0, 0) is one sub-tile. *)
C18_FetchedTilesIntersectWindow ==
  Planned =>
    /\ \A i \in DOMAIN TheTopology :
         LET t == TheTopology[i]
         IN /\ t.abs_offset_x < call.win.x + call.win.w
            /\ t.abs_offset_x + TileSize > call.win.x
            /\ t.abs_offset_y < call.win.y + call.win.h
            /\ t.abs_offset_y + TileSize > call.win.y
    /\ (call.win = ProbeWindow => Cardinality(DOMAIN TheTopology) = 1)

(* C19: if the download of a sub-tile returns false during fetch_subtiles,
   the call ends with an extraction failure and does not return normally. *)
C19_PrefetchFailsOnFailedDownload ==
  (pc = "idle" /\ call.fn = "fetch_subtiles"
     /\ \E i \in DOMAIN results : results[i].exc = "none" /\ ~results[i].ret) =>
    /\ outcome.kind = "raised"
    /\ outcome.exc = "TileExtractionException"

Mismatched ==
  /\ call # NoCall
  /\ call.cfg.tile_class = "CytomineIIPTile"
  /\ call.cfg.slide_class # "CytomineSlide"

(* C20: with CytomineIIPTile on a base image that is not a CytomineSlide the
   TypeError is raised at dispatch, before any sub-tile task has started, and
   in every such assembly. *)
C20_TypeErrorAtDispatch ==
  Mismatched =>
    /\ results = NoResults
    /\ (pc = "idle" => outcome.kind = "raised" /\ outcome.exc = "TypeError")

(* C21: a cached or downloaded sub-tile whose decoded shape is not the
   expected one (height or width different from the tile's, or not 3
   channels: a 2-D greyscale or a 4-channel image) makes np_image raise
   TileExtractionException: no other exception, and no buffer returned. *)
C21_ShapeMismatchIsExtractionFailure ==
  (SubTileDone /\ Exists(files, SubTilePath)
     /\ files[SubTilePath].kind \in {"rgb", "grey", "rgba"}) =>
    LET d == Decode(files[SubTilePath])
    IN (d.ndim # 3 \/ d.chans # Channels
          \/ d.rows # top.tile.height \/ d.cols # top.tile.width) =>
         /\ top.result.exc = "TileExtractionException"
         /\ top.result.img = NoImage

(* the zoom index the server counts down from, as each class reads it *)
ServerMaxZoom == IF top.cls = "CytomineSlide" THEN image.zoom ELSE image.depth

(* C22: every slide constructed has api_zoom_level = server maximum zoom -
   zoom_level, within [0, server maximum]; a zoom_level outside [0, server
   maximum] is refused with ValueError at construction. *)
C22_ApiZoomLevelInRange ==
  (top.fn = "slide" /\ top.pc = "done") =>
    /\ top.raised = "none" =>
         /\ top.api = ServerMaxZoom - top.zoom_level
         /\ 0 <= top.api /\ top.api <= ServerMaxZoom
    /\ (top.zoom_level < 0 \/ top.zoom_level > ServerMaxZoom) => top.raised = "ValueError"

====
